---- MODULE Spec2Model ----
(***************************************************************************)
(* The log-backed materialized document store of burnell: the tenant       *)
(* policy store (package policy: TenantPolicyHandler) and the function     *)
(* metadata store (package logclient: functionMap, ReaderLoop), each with  *)
(* its consumer loop and its watchdog.                                     *)
(***************************************************************************)
EXTENDS Integers, Sequences, FiniteSets, TLC

(* ------------------------------ bounds --------------------------------- *)
\* longest tenant topic (number of successful appends) explored
MaxLog == 2
\* dbListener goroutines that can exist side by side in the model
MaxLoops == 2
\* longest function metadata topic explored
MaxFnLog == 2

(* --------------------------- document model ---------------------------- *)
\* TenantStatus enumeration; Reserved0 is the zero value
Reserved0 == 0
Activated == 1
Deactivated == 2
Deleted == 4

\* time.Hour; a time.Duration is counted here in seconds, not nanoseconds
\* (the durations of the model are whole hours, far from the int64 range)
Hour == 3600

Keys == {"acme", "beta"}
Callers == {"c1", "c2"}
Slots == 1..MaxLoops
\* the request handlers that only read a map: one calls GetTenant, one calls
\* ReadFunctionMap (GetFunctionLog)
Handlers == {"GetTenant", "ReadFunctionMap"}
\* the HTTP requests that can be in the router at once
MaxRequests == 4
HTTPRequests == 1..MaxRequests

\* PlanPolicy{}
emptyPolicy ==
  [Name |-> "", NumOfTopics |-> 0, NumOfNamespaces |-> 0,
   MessageHourRetention |-> 0, MessageRetention |-> 0, NumOfProducers |-> 0,
   NumOfConsumers |-> 0, Functions |-> 0, FeatureCodes |-> ""]

\* TenantPlan{}; UpdatedAt 0 is the zero time
emptyPlan ==
  [Name |-> "", TenantStatus |-> Reserved0, Org |-> "", Users |-> "",
   PlanType |-> "", UpdatedAt |-> 0, Policy |-> emptyPolicy, Audit |-> ""]

\* the default policy of the free plan class
FreePlanPolicy ==
  [Name |-> "free", NumOfTopics |-> 5, NumOfNamespaces |-> 1,
   MessageHourRetention |-> 48, MessageRetention |-> 48 * Hour,
   NumOfProducers |-> 3, NumOfConsumers |-> 5, Functions |-> 1,
   FeatureCodes |-> ""]

\* the default policy of the starter plan class
StarterPlanPolicy ==
  [Name |-> "starter", NumOfTopics |-> 20, NumOfNamespaces |-> 2,
   MessageHourRetention |-> 168, MessageRetention |-> 168 * Hour,
   NumOfProducers |-> 30, NumOfConsumers |-> 50, Functions |-> 10,
   FeatureCodes |-> ""]

\* the nil *PlanPolicy
NilPolicy == [Name |-> "<nil>"]

\* strings.ToLower on the plan type strings the requests use
ToLower(s) ==
  CASE s = "Free" -> "free"
    [] s = "FREE" -> "free"
    [] s = "Starter" -> "starter"
    [] OTHER -> s

\* getPlanPolicy: the default policy of a recognized plan type, nil otherwise
getPlanPolicy(plan) ==
  CASE plan = "free" -> FreePlanPolicy
    [] plan = "starter" -> StarterPlanPolicy
    [] OTHER -> NilPolicy

\* util.AssignString: the first non-empty string (two arguments)
AssignString(a, b) == IF a = "" THEN b ELSE a

\* takeNonZero that always keeps the existing value
takeNonZeroExisting(a, b) == b

takeNonZero(a, b) == IF a = 0 THEN b ELSE a

\* takeTenantStatus that always takes the requested status
takeTenantStatusRequested(a, b) == a

takeTenantStatus(a, b) == IF a = Reserved0 THEN b ELSE a


(* ----------------------------- HTTP codes ------------------------------ *)
StatusOK == 200
StatusUnprocessableEntity == 422
StatusInternalServerError == 500

(* ------------------------------- state --------------------------------- *)
VARIABLES
  tenants,      \* TenantPolicyHandler.tenants: map from tenant name to TenantPlan
  log,          \* the tenant topic: the sequence of TenantPlan documents sent
  pc,           \* per caller: where its UpdateTenant/DeleteTenant call stands
  call,         \* per caller: the locals of the call in progress
  ret,          \* what the last step of a caller returned, and to whom (NoRet
                \* when that step returned nothing)
  spc,          \* the supervisor goroutine started by Setup
  lpc,          \* per dbListener goroutine: its position
  loff,         \* per dbListener goroutine: messages its reader has delivered
  functionMap,  \* logclient.functionMap
  fnLog,        \* the function metadata topic
  wpc,          \* the goroutine started by FunctionTopicWatchDog
  rpc,          \* the ReaderLoop call made by that goroutine
  roff,         \* messages the ReaderLoop's reader has delivered
  rpass,        \* replay: which run of the consumer loop over the topic this is
  rpos,         \* replay: documents of the topic applied in this run
  tenantsLock,  \* TenantPolicyHandler.tenantsLock: how many hold it shared
  fnMpLock,     \* logclient.fnMpLock: how many hold it shared
  gpc,          \* per reading handler (GetTenant, ReadFunctionMap): its position
  script,       \* scripted calls: the request bodies a client sends, in order
  Rate,         \* route.Rate: the permits of the semaphore that are taken
  qpc           \* per HTTP request: where it stands in LimitRate's handler

vars == <<tenants, log, pc, call, ret, spc, lpc, loff,
          functionMap, fnLog, wpc, rpc, roff, rpass, rpos,
          tenantsLock, fnMpLock, gpc, script, Rate, qpc>>
tenantVars == <<tenants, log, pc, call, ret, spc, lpc, loff>>
callerVars == <<pc, call, ret>>
listenerVars == <<spc, lpc, loff>>
fnVars == <<functionMap, fnLog, wpc, rpc, roff>>
replayVars == <<rpass, rpos>>
lockVars == <<tenantsLock, fnMpLock, gpc>>
rateVars == <<Rate, qpc>>

(* ------------------------------ Go maps -------------------------------- *)
\* make(map[string]T)
EmptyMap == <<>>
\* m[k] = v
MapSet(m, k, v) == [x \in (DOMAIN m) \cup {k} |-> IF x = k THEN v ELSE m[x]]
\* delete(m, k)
MapDelete(m, k) == [x \in (DOMAIN m) \ {k} |-> m[x]]

\* time.Now(), as a logical clock: one tick per document sent to the topic
Now == Len(log) + 1

(* ------------------------- reconciliation engine ----------------------- *)
\* MergePlan with the audit overwritten by the request's instead of appended
MergePlanOverwriteAudit(reqPlan, existingPlan) ==
  [reqPlan EXCEPT
     !.Policy = IF reqPlan.Policy = emptyPolicy
                THEN existingPlan.Policy ELSE reqPlan.Policy,
     !.TenantStatus = takeTenantStatus(reqPlan.TenantStatus,
                                       existingPlan.TenantStatus),
     !.Org = AssignString(reqPlan.Org, existingPlan.Org),
     !.Users = AssignString(reqPlan.Users, existingPlan.Users)]

\* the update branch of ReconcileTenantPlan: merge the request into the
\* existing plan
MergePlan(reqPlan, existingPlan) ==
  LET hours == IF reqPlan.Policy.MessageHourRetention = 0
               THEN existingPlan.Policy.MessageHourRetention
               ELSE reqPlan.Policy.MessageHourRetention
      policy ==
        [Name |-> AssignString(reqPlan.Policy.Name, existingPlan.Policy.Name),
         NumOfTopics |-> takeNonZero(reqPlan.Policy.NumOfTopics,
                                     existingPlan.Policy.NumOfTopics),
         NumOfNamespaces |-> takeNonZero(reqPlan.Policy.NumOfNamespaces,
                                         existingPlan.Policy.NumOfNamespaces),
         MessageHourRetention |-> hours,
         MessageRetention |-> hours * Hour,
         NumOfProducers |-> takeNonZero(reqPlan.Policy.NumOfProducers,
                                        existingPlan.Policy.NumOfProducers),
         NumOfConsumers |-> takeNonZero(reqPlan.Policy.NumOfConsumers,
                                        existingPlan.Policy.NumOfConsumers),
         Functions |-> takeNonZero(reqPlan.Policy.Functions,
                                   existingPlan.Policy.Functions),
         FeatureCodes |-> AssignString(reqPlan.Policy.FeatureCodes,
                                       existingPlan.Policy.FeatureCodes)]
  IN [reqPlan EXCEPT
        !.Policy = policy,
        !.TenantStatus = takeTenantStatus(reqPlan.TenantStatus,
                                          existingPlan.TenantStatus),
        !.Org = AssignString(reqPlan.Org, existingPlan.Org),
        !.Users = AssignString(reqPlan.Users, existingPlan.Users),
        !.Audit = existingPlan.Audit \o "," \o reqPlan.Audit]

\* CreatePlan with the class defaults always taken as the policy
CreatePlanAlwaysDefault(reqPlan) ==
  [reqPlan EXCEPT
     !.Audit = IF reqPlan.Audit = "" THEN "initial creation," ELSE reqPlan.Audit,
     !.Policy = getPlanPolicy(ToLower(reqPlan.PlanType)),
     !.TenantStatus = takeTenantStatus(reqPlan.TenantStatus, Activated)]

\* the creation branch of ReconcileTenantPlan
CreatePlan(reqPlan) ==
  [reqPlan EXCEPT
     !.Audit = IF reqPlan.Audit = "" THEN "initial creation," ELSE reqPlan.Audit,
     !.Policy = IF reqPlan.Policy = emptyPolicy
                THEN getPlanPolicy(ToLower(reqPlan.PlanType))
                ELSE reqPlan.Policy,
     !.TenantStatus = takeTenantStatus(reqPlan.TenantStatus, Activated)]

\* ReconcileTenantPlan with the plan type looked up on the creation branch
\* only: an update of an existing plan is merged whatever its plan type
ReconcileCheckOnCreate(reqPlan, existingPlan) ==
  LET stamped == [reqPlan EXCEPT !.UpdatedAt = Now]
  IN IF emptyPlan # existingPlan
     THEN [plan |-> MergePlan(stamped, existingPlan), err |-> ""]
     ELSE IF getPlanPolicy(ToLower(reqPlan.PlanType)) = NilPolicy
          THEN [plan |-> emptyPlan, err |-> "a valid plan type is missing"]
          ELSE [plan |-> CreatePlan(stamped), err |-> ""]

\* ReconcileTenantPlan(reqPlan, existingPlan) -> (TenantPlan, error)
ReconcileTenantPlan(reqPlan, existingPlan) ==
  LET stamped == [reqPlan EXCEPT !.UpdatedAt = Now]
  IN IF getPlanPolicy(ToLower(reqPlan.PlanType)) = NilPolicy
     THEN [plan |-> emptyPlan, err |-> "a valid plan type is missing"]
     ELSE IF emptyPlan = existingPlan
          THEN [plan |-> CreatePlan(stamped), err |-> ""]
          ELSE [plan |-> MergePlan(stamped, existingPlan), err |-> ""]

(* --------------------------- materialized cache ------------------------ *)
\* GetTenant(tenantName) -> (TenantPlan, error)
GetTenant(tenantName) ==
  IF tenantName \in DOMAIN tenants
  THEN [plan |-> tenants[tenantName], err |-> ""]
  ELSE [plan |-> emptyPlan, err |-> "not found"]

\* A payload of the tenant topic is written here as the TenantPlan it is the
\* JSON of.  NotJSON is a payload that is not JSON at all (truncated, or in
\* another encoding): no TenantPlan marshals to it.
NotJSON == [emptyPlan EXCEPT !.PlanType = "<not JSON>"]

\* t := TenantPlan{}; err = json.Unmarshal(data.Payload(), &t): the plan the
\* payload encodes, or an error with t left at its zero value
Unmarshal(payload) ==
  IF payload = NotJSON
  THEN [t |-> emptyPlan, err |-> "invalid character"]
  ELSE [t |-> payload, err |-> ""]

\* ApplyEntry that leaves a key alone once it is in the map
ApplyEntryKeepFirst(m, t) ==
  IF t.TenantStatus = Deleted THEN MapDelete(m, t.Name)
  ELSE IF t.Name \in DOMAIN m THEN m ELSE MapSet(m, t.Name, t)

\* ApplyEntry with the tombstone test lost: every document is stored
ApplyEntryAlwaysSet(m, t) == MapSet(m, t.Name, t)

\* the body of dbListener's loop once a document t is decoded: upsert, or
\* remove on a tombstone
ApplyEntry(m, t) ==
  IF t.TenantStatus # Deleted THEN MapSet(m, t.Name, t) ELSE MapDelete(m, t.Name)

(* ------------------------------ requests ------------------------------- *)
\* a request body: a TenantPlan with the given fields set and the rest zero
Req(name, planType, status, topics, audit) ==
  [emptyPlan EXCEPT !.Name = name, !.PlanType = planType,
                    !.TenantStatus = status, !.Audit = audit,
                    !.Policy = [emptyPolicy EXCEPT !.NumOfTopics = topics]]

\* the request bodies explored
Requests ==
  { Req("", "Free", Reserved0, 10, ""),
    Req("beta", "free", Reserved0, 0, "bump"),
    Req("", "gold", Reserved0, 0, "") }

\* no call in progress; plan is updateDb's tenantPlan, t is DeleteTenant's t
NoCall == [op |-> "none", key |-> "", plan |-> emptyPlan, t |-> emptyPlan]
\* nothing returned yet
NoRet ==
  [caller |-> "", op |-> "none", key |-> "", code |-> 0, plan |-> emptyPlan,
   err |-> ""]

(* ------------------------------ writer path ---------------------------- *)
\* UpdateTenant with the name of the request body kept: tenantPlan.Name is
\* not overridden by tenantName
UpdateTenantKeepName(c, tenantName, tenantPlan) ==
  /\ pc[c] = "idle"
  /\ LET existingTenant == GetTenant(tenantName).plan
         r == ReconcileTenantPlan(tenantPlan, existingTenant)
     IN IF r.err # ""
        THEN /\ ret' =
                  [caller |-> c, op |-> "update", key |-> tenantName,
                   code |-> StatusUnprocessableEntity,
                   plan |-> emptyPlan, err |-> r.err]
             /\ UNCHANGED <<pc, call>>
        ELSE /\ pc' = [pc EXCEPT ![c] = "send"]
             /\ call' = [call EXCEPT ![c] =
                           [op |-> "update", key |-> tenantName,
                            plan |-> r.plan, t |-> emptyPlan]]
             /\ ret' = NoRet
  /\ UNCHANGED <<tenants, log, listenerVars, fnVars, replayVars, lockVars,
               script, rateVars>>

\* UpdateTenant up to the call of updateDb: read the cache, enforce the
\* name, reconcile; a reconcile error returns 422
UpdateTenant(c, tenantName, tenantPlan) ==
  /\ pc[c] = "idle"
  /\ LET existingTenant == GetTenant(tenantName).plan
         r == ReconcileTenantPlan([tenantPlan EXCEPT !.Name = tenantName],
                                  existingTenant)
     IN IF r.err # ""
        THEN /\ ret' =
                          [caller |-> c, op |-> "update", key |-> tenantName,
                           code |-> StatusUnprocessableEntity,
                           plan |-> emptyPlan, err |-> r.err]
             /\ UNCHANGED <<pc, call>>
        ELSE /\ pc' = [pc EXCEPT ![c] = "send"]
             /\ call' = [call EXCEPT ![c] =
                           [op |-> "update", key |-> tenantName, plan |-> r.plan,
                            t |-> emptyPlan]]
             /\ ret' = NoRet
  /\ UNCHANGED <<tenants, log, listenerVars, fnVars, replayVars, lockVars, script,
               rateVars>>

\* DeleteTenant with the lookup's result ignored: a tombstone is written for
\* any key
DeleteTenantAnyKey(c, tenantName) ==
  /\ pc[c] = "idle"
  /\ pc' = [pc EXCEPT ![c] = "send"]
  /\ LET t == [GetTenant(tenantName).plan EXCEPT
                 !.Name = tenantName, !.TenantStatus = Deleted]
     IN call' = [call EXCEPT ![c] =
                   [op |-> "delete", key |-> tenantName, plan |-> t, t |-> t]]
  /\ ret' = NoRet
  /\ UNCHANGED <<tenants, log, listenerVars, fnVars, replayVars, lockVars, script,
               rateVars>>

\* DeleteTenant up to the call of updateDb: look the key up, mark the copy
\* Deleted; an absent key returns not found
DeleteTenant(c, tenantName) ==
  /\ pc[c] = "idle"
  /\ IF tenantName \notin DOMAIN tenants
     THEN /\ ret' =
                       [caller |-> c, op |-> "delete", key |-> tenantName, code |-> 0,
                        plan |-> emptyPlan, err |-> "not found"]
          /\ UNCHANGED <<pc, call>>
     ELSE /\ pc' = [pc EXCEPT ![c] = "send"]
          /\ LET t == [tenants[tenantName] EXCEPT !.TenantStatus = Deleted]
             IN call' = [call EXCEPT ![c] =
                           [op |-> "delete", key |-> tenantName, plan |-> t,
                            t |-> t]]
          /\ ret' = NoRet
  /\ UNCHANGED <<tenants, log, listenerVars, fnVars, replayVars, lockVars, script,
               rateVars>>

\* updateDb, first half, success: stamp UpdatedAt, marshal, Send and Flush
updateDbSend(c) ==
  /\ pc[c] = "send"
  /\ Len(log) < MaxLog
  /\ LET tenantPlan == [call[c].plan EXCEPT !.UpdatedAt = Now]
     IN /\ log' = Append(log, tenantPlan)
        /\ call' = [call EXCEPT ![c].plan = tenantPlan]
  /\ pc' = [pc EXCEPT ![c] = "set"]
  /\ ret' = NoRet
  /\ UNCHANGED <<tenants, listenerVars, fnVars, replayVars, lockVars, script,
               rateVars>>

\* updateDbFail with the map set before the send is attempted
updateDbFailAfterSet(c) ==
  /\ pc[c] = "send"
  /\ tenants' = MapSet(tenants, call[c].plan.Name, call[c].plan)
  /\ ret' =
               [caller |-> c, op |-> call[c].op, key |-> call[c].key,
                code |-> IF call[c].op = "update"
                         THEN StatusInternalServerError ELSE 0,
                plan |-> emptyPlan, err |-> "send failed"]
  /\ pc' = [pc EXCEPT ![c] = "idle"]
  /\ call' = [call EXCEPT ![c] = NoCall]
  /\ UNCHANGED <<log, listenerVars, fnVars, replayVars, lockVars, script,
               rateVars>>

\* updateDb, first half, failure (CreateProducer, Marshal or Send error): the
\* error goes back to the caller, as 500 from UpdateTenant
updateDbFail(c) ==
  /\ pc[c] = "send"
  /\ ret' =
               [caller |-> c, op |-> call[c].op, key |-> call[c].key,
                code |-> IF call[c].op = "update"
                         THEN StatusInternalServerError ELSE 0,
                plan |-> emptyPlan, err |-> "send failed"]
  /\ pc' = [pc EXCEPT ![c] = "idle"]
  /\ call' = [call EXCEPT ![c] = NoCall]
  /\ UNCHANGED <<tenants, log, listenerVars, fnVars, replayVars, lockVars, script,
               rateVars>>

\* updateDb, second half: set the plan in the map under the lock and return;
\* UpdateTenant then returns it with 200, DeleteTenant goes on to its delete
updateDbSet(c) ==
  /\ pc[c] = "set"
  /\ tenantsLock = 0
  /\ tenants' = MapSet(tenants, call[c].plan.Name, call[c].plan)
  /\ IF call[c].op = "update"
     THEN /\ ret' =
                       [caller |-> c, op |-> "update", key |-> call[c].key,
                        code |-> StatusOK,
                        plan |-> call[c].plan, err |-> ""]
          /\ pc' = [pc EXCEPT ![c] = "idle"]
          /\ call' = [call EXCEPT ![c] = NoCall]
     ELSE /\ pc' = [pc EXCEPT ![c] = "del"]
          /\ ret' = NoRet
          /\ UNCHANGED call
  /\ UNCHANGED <<log, listenerVars, fnVars, replayVars, lockVars, script,
               rateVars>>

\* DeleteTenant after updateDb: delete the key under the lock, return the
\* local t (updateDb stamped its own copy, passed by value)
DeleteTenantRemove(c) ==
  /\ pc[c] = "del"
  /\ tenantsLock = 0
  /\ tenants' = MapDelete(tenants, call[c].key)
  /\ ret' =
               [caller |-> c, op |-> "delete", key |-> call[c].key, code |-> 0,
                plan |-> call[c].t, err |-> ""]
  /\ pc' = [pc EXCEPT ![c] = "idle"]
  /\ call' = [call EXCEPT ![c] = NoCall]
  /\ UNCHANGED <<log, listenerVars, fnVars, replayVars, lockVars, script,
               rateVars>>

(* ------------------- consumer loop and watchdog (tenants) -------------- *)
\* the dbListener goroutines that exist
Live == {i \in Slots : lpc[i] # "none"}

\* go s.dbListener(sig): a new goroutine at the top of dbListener
GoDbListener ==
  /\ \E i \in Slots :
       /\ lpc[i] = "none"
       /\ \A j \in Slots : j < i => lpc[j] # "none"
       /\ lpc' = [lpc EXCEPT ![i] = "create"]
       /\ loff' = [loff EXCEPT ![i] = 0]

\* Setup's goroutine: make the channel and start the first dbListener
SetupLaunch ==
  /\ spc = "init"
  /\ GoDbListener
  /\ spc' = "recv"
  /\ UNCHANGED <<tenants, log, callerVars, fnVars, replayVars, lockVars, script,
               rateVars>>

\* SupervisorRelaunch with the go statement lost: the signal is taken and
\* nothing is started
SupervisorRelaunchNothing ==
  /\ spc = "relaunch"
  /\ spc' = "recv"
  /\ UNCHANGED <<tenants, log, callerVars, lpc, loff, fnVars, replayVars, lockVars, script,
               rateVars>>

\* SupervisorRelaunch with a default case in the select: another dbListener
\* is started whether or not a signal came
SupervisorRelaunchNoWait ==
  /\ spc \in {"recv", "relaunch"}
  /\ GoDbListener
  /\ spc' = "recv"
  /\ UNCHANGED <<tenants, log, callerVars, fnVars, replayVars, lockVars, script,
               rateVars>>

\* Setup's goroutine, case <-sig taken: start another dbListener and go back
\* to the select
SupervisorRelaunch ==
  /\ spc = "relaunch"
  /\ GoDbListener
  /\ spc' = "recv"
  /\ UNCHANGED <<tenants, log, callerVars, fnVars, replayVars, lockVars, script,
               rateVars>>

\* dbListener: CreateReader at the earliest message succeeded
CreateReaderOk(i) ==
  /\ lpc[i] = "create"
  /\ lpc' = [lpc EXCEPT ![i] = "next"]
  /\ loff' = [loff EXCEPT ![i] = 0]
  /\ UNCHANGED <<tenants, log, callerVars, spc, fnVars, replayVars, lockVars, script,
               rateVars>>

\* dbListener: CreateReader failed; return err runs the deferred signal
CreateReaderFail(i) ==
  /\ lpc[i] = "create"
  /\ lpc' = [lpc EXCEPT ![i] = "signal"]
  /\ UNCHANGED <<tenants, log, callerVars, spc, loff, fnVars, replayVars, lockVars, script,
               rateVars>>

\* dbListener: reader.Next delivered the next document of the topic
ReaderNext(i) ==
  /\ lpc[i] = "next"
  /\ loff[i] < Len(log)
  /\ loff' = [loff EXCEPT ![i] = loff[i] + 1]
  /\ lpc' = [lpc EXCEPT ![i] = "apply"]
  /\ UNCHANGED <<tenants, log, callerVars, spc, fnVars, replayVars, lockVars, script,
               rateVars>>

\* ReaderNextError with no deferred calls: the goroutine just ends
ReaderNextErrorNoSignal(i) ==
  /\ lpc[i] = "next"
  /\ lpc' = [lpc EXCEPT ![i] = "none"]
  /\ loff' = [loff EXCEPT ![i] = 0]
  /\ UNCHANGED <<tenants, log, callerVars, spc, fnVars, replayVars, lockVars, script,
               rateVars>>

\* dbListener: reader.Next returned an error; return err runs the deferred
\* reader.Close first (the reader delivers nothing more: its offset is dropped)
ReaderNextError(i) ==
  /\ lpc[i] = "next"
  /\ lpc' = [lpc EXCEPT ![i] = "close"]
  /\ loff' = [loff EXCEPT ![i] = 0]
  /\ UNCHANGED <<tenants, log, callerVars, spc, fnVars, replayVars, lockVars, script,
               rateVars>>

\* dbListener: the payload just read is unmarshalled (an error is logged and
\* nothing else) and t is applied to the map under the lock
ListenerApply(i) ==
  /\ lpc[i] = "apply"
  /\ tenantsLock = 0
  /\ tenants' = ApplyEntry(tenants, Unmarshal(log[loff[i]]).t)
  /\ lpc' = [lpc EXCEPT ![i] = "next"]
  /\ UNCHANGED <<log, callerVars, spc, loff, fnVars, replayVars, lockVars, script,
               rateVars>>

\* dbListener: deferred reader.Close()
ReaderClose(i) ==
  /\ lpc[i] = "close"
  /\ lpc' = [lpc EXCEPT ![i] = "signal"]
  /\ UNCHANGED <<tenants, log, callerVars, spc, loff, fnVars, replayVars, lockVars, script,
               rateVars>>

\* the deferred termination <- &liveSignal{} of dbListener meets the
\* supervisor's case <-sig (the channel is unbuffered); the goroutine ends
ListenerSignal(i) ==
  /\ lpc[i] = "signal"
  /\ spc = "recv"
  /\ lpc' = [lpc EXCEPT ![i] = "none"]
  /\ spc' = "relaunch"
  /\ UNCHANGED <<tenants, log, callerVars, loff, fnVars, replayVars, lockVars, script,
               rateVars>>

(* --------------------------- function metadata ------------------------ *)
\* the (tenant, namespace, function name) triples the metadata topic names
Functions ==
  { <<"a", "bc", "f">>, <<"ab", "c", "f">>, <<"a", "b", "g">> }

\* a pb.ServiceRequest: its type, its worker id and the FunctionDetails of
\* its FunctionMetaData
ServiceRequest(type, fn, workerID) ==
  [ServiceRequestType |-> type, WorkerId |-> workerID,
   Tenant |-> fn[1], Namespace |-> fn[2], Name |-> fn[3],
   InputSpecs |-> {"in-" \o fn[3]}, TopicsPattern |-> "",
   SinkTopic |-> "out-" \o fn[3], LogTopic |-> "", AutoAck |-> TRUE,
   Parallelism |-> 1]

\* the service requests the function workers publish
ServiceRequests ==
  { ServiceRequest(t, fn, "w1") : t \in {"UPDATE", "DELETE"}, fn \in Functions }

\* functionMap's key
FunctionKey(sr) == sr.Tenant \o sr.Namespace \o sr.Name

\* ReadFunctionMap(key) -> (FunctionType, bool)
ReadFunctionMap(m, key) ==
  IF key \in DOMAIN m THEN [f |-> m[key], ok |-> TRUE]
  ELSE [f |-> <<>>, ok |-> FALSE]

\* WriteFunctionMap(key, f)
WriteFunctionMap(m, key, f) == MapSet(m, key, f)

\* DeleteFunctionMap(key)
DeleteFunctionMap(m, key) == IF key \in DOMAIN m THEN MapDelete(m, key) ELSE m

\* the FunctionType that ParseServiceRequest builds
FunctionOf(sr) ==
  LET specs == IF sr.InputSpecs = {} THEN <<>>
               ELSE <<CHOOSE k \in sr.InputSpecs : TRUE>>
  IN [Tenant |-> sr.Tenant, Namespace |-> sr.Namespace,
      FunctionName |-> sr.Name, FunctionWorkerID |-> sr.WorkerId,
      InputTopics |-> IF Len(sr.TopicsPattern) > 0
                      THEN Append(specs, sr.TopicsPattern) ELSE specs,
      InputTopicRegex |-> sr.TopicsPattern, SinkTopic |-> sr.SinkTopic,
      LogTopic |-> sr.LogTopic, AutoAck |-> sr.AutoAck,
      Parallism |-> sr.Parallelism]

\* ParseServiceRequest: the map after the service request
ParseServiceRequest(m, sr) ==
  IF sr.ServiceRequestType = "DELETE"
  THEN DeleteFunctionMap(m, FunctionKey(sr))
  ELSE WriteFunctionMap(m, FunctionKey(sr), FunctionOf(sr))

\* a function worker publishes a service request on the metadata topic
FnPublish(sr) ==
  /\ Len(fnLog) < MaxFnLog
  /\ fnLog' = Append(fnLog, sr)
  /\ UNCHANGED <<tenantVars, replayVars, lockVars, script, rateVars,
               functionMap, wpc, rpc, roff>>

\* FunctionTopicWatchDog's goroutine: make the channel s and call
\* ReaderLoop(s), in this same goroutine
WatchDogStart ==
  /\ wpc = "init"
  /\ wpc' = "incall"
  /\ rpc' = "start"
  /\ UNCHANGED <<tenantVars, replayVars, lockVars, script, rateVars,
               functionMap, fnLog, roff>>

\* ReaderLoop: functionMap = make(map[string]FunctionType), fnMpLock not taken
ReaderLoopInit ==
  /\ rpc = "start"
  /\ functionMap' = EmptyMap
  /\ rpc' = "client"
  /\ UNCHANGED <<tenantVars, replayVars, lockVars, script, rateVars,
               fnLog, wpc, roff>>

\* ReaderLoop: pulsar.NewClient succeeded
NewClientOk ==
  /\ rpc = "client"
  /\ rpc' = "reader"
  /\ UNCHANGED <<tenantVars, replayVars, lockVars, script, rateVars,
               functionMap, fnLog, wpc, roff>>

\* ReaderLoop: pulsar.NewClient failed; return runs the deferred send on s
NewClientFail ==
  /\ rpc = "client"
  /\ rpc' = "signal"
  /\ UNCHANGED <<tenantVars, replayVars, lockVars, script, rateVars,
               functionMap, fnLog, wpc, roff>>

\* ReaderLoop: client.CreateReader at the earliest message succeeded
FnCreateReaderOk ==
  /\ rpc = "reader"
  /\ rpc' = "next"
  /\ roff' = 0
  /\ UNCHANGED <<tenantVars, replayVars, lockVars, script, rateVars,
               functionMap, fnLog, wpc>>

\* ReaderLoop: client.CreateReader failed; return runs the deferred calls
FnCreateReaderFail ==
  /\ rpc = "reader"
  /\ rpc' = "close"
  /\ UNCHANGED <<tenantVars, replayVars, lockVars, script, rateVars,
               functionMap, fnLog, wpc, roff>>

\* ReaderLoop: reader.Next delivered the next service request
FnReaderNext ==
  /\ rpc = "next"
  /\ roff < Len(fnLog)
  /\ roff' = roff + 1
  /\ rpc' = "apply"
  /\ UNCHANGED <<tenantVars, replayVars, lockVars, script, rateVars,
               functionMap, fnLog, wpc>>

\* ReaderLoop: reader.Next returned an error; return runs the deferred calls
FnReaderNextError ==
  /\ rpc = "next"
  /\ rpc' = "close"
  /\ roff' = 0
  /\ UNCHANGED <<tenantVars, replayVars, lockVars, script, rateVars,
               functionMap, fnLog, wpc>>

\* ReaderLoop: the service request just read goes through ParseServiceRequest
\* (WriteFunctionMap and DeleteFunctionMap take fnMpLock)
FnApply ==
  /\ rpc = "apply"
  /\ fnMpLock = 0
  /\ functionMap' = ParseServiceRequest(functionMap, fnLog[roff])
  /\ rpc' = "next"
  /\ UNCHANGED <<tenantVars, replayVars, lockVars, script, rateVars,
               fnLog, wpc, roff>>

\* ReaderLoop: the deferred reader.Close() and client.Close(); what is left
\* is the deferred send s <- &liveSignal{}.  The channel is unbuffered and
\* its only receive, case <-s in FunctionTopicWatchDog, is in this same
\* goroutine after ReaderLoop(s) returns: no step leaves rpc = "signal".
FnClose ==
  /\ rpc = "close"
  /\ rpc' = "signal"
  /\ UNCHANGED <<tenantVars, replayVars, lockVars, script, rateVars,
               functionMap, fnLog, wpc, roff>>

(* --------------------------- the whole system -------------------------- *)
Init ==
  /\ tenants = EmptyMap
  /\ log = <<>>
  /\ pc = [c \in Callers |-> "idle"]
  /\ call = [c \in Callers |-> NoCall]
  /\ ret = NoRet
  /\ spc = "init"
  /\ lpc = [i \in Slots |-> "none"]
  /\ loff = [i \in Slots |-> 0]
  /\ functionMap = EmptyMap
  /\ fnLog = <<>>
  /\ wpc = "init"
  /\ rpc = "idle"
  /\ roff = 0
  /\ rpass = 1
  /\ rpos = 0
  /\ tenantsLock = 0
  /\ fnMpLock = 0
  /\ gpc = [h \in Handlers |-> "idle"]
  /\ Rate = 0
  /\ qpc = [q \in HTTPRequests |-> "idle"]
  /\ script = <<>>

\* the callers of the tenant store
WriterNext ==
  \E c \in Callers :
    \/ \E k \in Keys, r \in Requests : UpdateTenant(c, k, r)
    \/ \E k \in Keys : DeleteTenant(c, k)
    \/ updateDbSend(c)
    \/ updateDbFail(c)
    \/ updateDbSet(c)
    \/ DeleteTenantRemove(c)

\* the tenant topic's consumer loop and its supervisor
ListenerNext ==
  \/ SetupLaunch
  \/ SupervisorRelaunch
  \/ \E i \in Slots :
       \/ CreateReaderOk(i)
       \/ CreateReaderFail(i)
       \/ ReaderNext(i)
       \/ ReaderNextError(i)
       \/ ListenerApply(i)
       \/ ReaderClose(i)
       \/ ListenerSignal(i)

\* the function metadata topic, its consumer loop and its watchdog
FnNext ==
  \/ \E sr \in ServiceRequests : FnPublish(sr)
  \/ WatchDogStart
  \/ ReaderLoopInit
  \/ NewClientOk
  \/ NewClientFail
  \/ FnCreateReaderOk
  \/ FnCreateReaderFail
  \/ FnReaderNext
  \/ FnReaderNextError
  \/ FnApply
  \/ FnClose

TenantNext == WriterNext \/ ListenerNext

\* the tenant store: callers, consumer loop and supervisor, from an empty topic
Spec == Init /\ [][TenantNext]_vars

(* ------------------- a topic that already holds documents -------------- *)
\* a well-formed document of the tenant topic
Document(name, status, audit) ==
  [emptyPlan EXCEPT !.Name = name, !.PlanType = "free",
                    !.TenantStatus = status, !.Audit = audit,
                    !.UpdatedAt = 1, !.Policy = FreePlanPolicy]

\* the documents a topic may hold when the service starts
Documents ==
  { Document(k, st, "initial creation,") :
      k \in Keys, st \in {Activated, Deactivated, Deleted} }

\* the topics of at most MaxLog documents
Histories == UNION { [1..n -> Documents] : n \in 0..MaxLog }

\* the service starts on a tenant topic written earlier (by this or another
\* instance of the service)
ConsumerInit ==
  /\ tenants = EmptyMap
  /\ log \in Histories
  /\ pc = [c \in Callers |-> "idle"]
  /\ call = [c \in Callers |-> NoCall]
  /\ ret = NoRet
  /\ spc = "init"
  /\ lpc = [i \in Slots |-> "none"]
  /\ loff = [i \in Slots |-> 0]
  /\ functionMap = EmptyMap
  /\ fnLog = <<>>
  /\ wpc = "init"
  /\ rpc = "idle"
  /\ roff = 0
  /\ rpass = 1
  /\ rpos = 0
  /\ tenantsLock = 0
  /\ fnMpLock = 0
  /\ gpc = [h \in Handlers |-> "idle"]
  /\ Rate = 0
  /\ qpc = [q \in HTTPRequests |-> "idle"]
  /\ script = <<>>

ConsumerNext == ListenerNext \/ FnNext

\* the two consumer loops and their watchdogs, no caller writing
ConsumerSpec == ConsumerInit /\ [][ConsumerNext]_vars

\* the goroutines of the tenant watchdog are scheduled: a deferred call that
\* can run runs, a send meets a waiting receive, the supervisor's go runs
ListenerFairness ==
  /\ WF_vars(SetupLaunch)
  /\ WF_vars(SupervisorRelaunch)
  /\ \A i \in Slots : WF_vars(ReaderClose(i)) /\ WF_vars(ListenerSignal(i))

\* the tenant consumer loop and its supervisor under a fair scheduler
WatchSpec == ConsumerInit /\ [][ListenerNext]_vars /\ ListenerFairness

\* the goroutine of FunctionTopicWatchDog is scheduled whenever it can step
FnFairness ==
  /\ WF_vars(WatchDogStart)
  /\ WF_vars(ReaderLoopInit)
  /\ WF_vars(FnClose)

\* the function metadata loop and its watchdog under a fair scheduler
FnWatchSpec == Init /\ [][FnNext]_vars /\ FnFairness

(* --------------------- a topic with unreadable payloads ---------------- *)
\* the topics of at most MaxLog payloads, well-formed documents or not JSON
Payloads == Documents \cup {NotJSON}
PayloadHistories == UNION { [1..n -> Payloads] : n \in 0..MaxLog }

\* the service starts on a tenant topic that may hold unreadable payloads
DecodeInit ==
  /\ tenants = EmptyMap
  /\ log \in PayloadHistories
  /\ pc = [c \in Callers |-> "idle"]
  /\ call = [c \in Callers |-> NoCall]
  /\ ret = NoRet
  /\ spc = "init"
  /\ lpc = [i \in Slots |-> "none"]
  /\ loff = [i \in Slots |-> 0]
  /\ functionMap = EmptyMap
  /\ fnLog = <<>>
  /\ wpc = "init"
  /\ rpc = "idle"
  /\ roff = 0
  /\ rpass = 1
  /\ rpos = 0
  /\ tenantsLock = 0
  /\ fnMpLock = 0
  /\ gpc = [h \in Handlers |-> "idle"]
  /\ Rate = 0
  /\ qpc = [q \in HTTPRequests |-> "idle"]
  /\ script = <<>>

\* the tenant consumer loop and its supervisor over such a topic
DecodeSpec == DecodeInit /\ [][ListenerNext]_vars

(* ------------------------------ map readers ---------------------------- *)
\* GetTenant: s.tenantsLock.RLock()
GetTenantRLock ==
  /\ gpc["GetTenant"] = "idle"
  /\ gpc' = [gpc EXCEPT !["GetTenant"] = "rlocked"]
  /\ tenantsLock' = tenantsLock + 1
  /\ UNCHANGED <<tenantVars, fnVars, replayVars, fnMpLock, script, rateVars>>

\* GetTenant: the lookup in s.tenants, the return and the deferred RUnlock
GetTenantRUnlock ==
  /\ gpc["GetTenant"] = "rlocked"
  /\ gpc' = [gpc EXCEPT !["GetTenant"] = "idle"]
  /\ tenantsLock' = tenantsLock - 1
  /\ UNCHANGED <<tenantVars, fnVars, replayVars, fnMpLock, script, rateVars>>

\* ReadFunctionMap: fnMpLock.RLock()
ReadFunctionMapRLock ==
  /\ gpc["ReadFunctionMap"] = "idle"
  /\ gpc' = [gpc EXCEPT !["ReadFunctionMap"] = "rlocked"]
  /\ fnMpLock' = fnMpLock + 1
  /\ UNCHANGED <<tenantVars, fnVars, replayVars, tenantsLock, script,
               rateVars>>

\* ReadFunctionMap: the lookup in functionMap, the return and the deferred
\* RUnlock
ReadFunctionMapRUnlock ==
  /\ gpc["ReadFunctionMap"] = "rlocked"
  /\ gpc' = [gpc EXCEPT !["ReadFunctionMap"] = "idle"]
  /\ fnMpLock' = fnMpLock - 1
  /\ UNCHANGED <<tenantVars, fnVars, replayVars, tenantsLock, script,
               rateVars>>

HandlerNext ==
  \/ GetTenantRLock
  \/ GetTenantRUnlock
  \/ ReadFunctionMapRLock
  \/ ReadFunctionMapRUnlock

LockNext == ConsumerNext \/ HandlerNext

\* the two consumer loops with their watchdogs and the reading handlers
LockSpec == ConsumerInit /\ [][LockNext]_vars

(* ------------------------------ rate limit ---------------------------- *)
\* the permits of Rate: NewSema(200), scaled down to the requests explored
RateSize == 2

\* Rate.Acquire(): a permit is taken if one is left, an error is returned
\* otherwise
AcquireOk == Rate < RateSize

\* LimitRate's handler up to its branch: Rate.Acquire(), then into
\* next.ServeHTTP, or http.Error with 429 when Acquire returned an error
LimitRateAcquire(q) ==
  /\ qpc[q] = "idle"
  /\ IF AcquireOk
     THEN Rate' = Rate + 1 /\ qpc' = [qpc EXCEPT ![q] = "serve"]
     ELSE Rate' = Rate /\ qpc' = [qpc EXCEPT ![q] = "rejected"]
  /\ UNCHANGED <<tenantVars, fnVars, replayVars, lockVars, script>>

\* next.ServeHTTP(w, r) returns
ServeHTTP(q) ==
  /\ qpc[q] = "serve"
  /\ qpc' = [qpc EXCEPT ![q] = "served"]
  /\ UNCHANGED <<tenantVars, fnVars, replayVars, lockVars, script, Rate>>

\* LimitRate's handler after its branch, on both arms: Rate.Release(), which
\* gives a taken permit back if there is one; the request is over
LimitRateRelease(q) ==
  /\ qpc[q] \in {"served", "rejected"}
  /\ Rate' = IF Rate > 0 THEN Rate - 1 ELSE Rate
  /\ qpc' = [qpc EXCEPT ![q] = "idle"]
  /\ UNCHANGED <<tenantVars, fnVars, replayVars, lockVars, script>>

RateNext ==
  \E q \in HTTPRequests :
    \/ LimitRateAcquire(q)
    \/ ServeHTTP(q)
    \/ LimitRateRelease(q)

\* the router's requests going through LimitRate
RateSpec == Init /\ [][RateNext]_vars

(* ---------------------------- scripted calls --------------------------- *)
\* the policies a request body may carry: none, one quota only, every field
TopicsOnlyPolicy == [emptyPolicy EXCEPT !.NumOfTopics = 10]
CustomPolicy ==
  [Name |-> "custom", NumOfTopics |-> 0, NumOfNamespaces |-> 3,
   MessageHourRetention |-> 24, MessageRetention |-> 0, NumOfProducers |-> 7,
   NumOfConsumers |-> 9, Functions |-> 2, FeatureCodes |-> "f1"]

\* the request bodies of a scripted client, all of a recognized plan type
ScriptRequests ==
  { [emptyPlan EXCEPT !.PlanType = pt, !.TenantStatus = st, !.Policy = po,
                      !.Org = who[1], !.Users = who[2], !.Audit = au] :
      pt \in {"free", "Starter"}, st \in {Reserved0, Deactivated},
      po \in {emptyPolicy, TopicsOnlyPolicy, CustomPolicy},
      who \in {<<"", "">>, <<"org1", "ann">>}, au \in {"", "bump"} }

\* the scripts: at most MaxLog requests, sent one after the other
Scripts == UNION { [1..n -> ScriptRequests] : n \in 1..MaxLog }

\* the key the scripted client writes
ScriptKey == "acme"

\* the store is empty and a client is about to send its script
ScriptInit ==
  /\ tenants = EmptyMap
  /\ log = <<>>
  /\ pc = [c \in Callers |-> "idle"]
  /\ call = [c \in Callers |-> NoCall]
  /\ ret = NoRet
  /\ spc = "init"
  /\ lpc = [i \in Slots |-> "none"]
  /\ loff = [i \in Slots |-> 0]
  /\ functionMap = EmptyMap
  /\ fnLog = <<>>
  /\ wpc = "init"
  /\ rpc = "idle"
  /\ roff = 0
  /\ rpass = 1
  /\ rpos = 0
  /\ tenantsLock = 0
  /\ fnMpLock = 0
  /\ gpc = [h \in Handlers |-> "idle"]
  /\ Rate = 0
  /\ qpc = [q \in HTTPRequests |-> "idle"]
  /\ script \in Scripts

\* the request the scripted client sends next
NextRequest == script[Len(log) + 1]

\* the client's next request reaches UpdateTenant once its previous one has
\* returned 200 (a handler goroutine of its own for every request)
ScriptCall ==
  /\ \A c \in Callers : pc[c] = "idle"
  /\ Len(log) < Len(script)
  /\ \E c \in Callers : UpdateTenant(c, ScriptKey, NextRequest)

ScriptNext ==
  \/ ScriptCall
  \/ \E c \in Callers : updateDbSend(c) \/ updateDbSet(c)

\* sequential successful UpdateTenant calls on one key, nothing else running
ScriptSpec == ScriptInit /\ [][ScriptNext]_vars

(* ------------------------------- replay -------------------------------- *)
\* how many times in a row the topic is replayed
MaxReplays == 2

\* the consumer loop applies the next document of the topic (dbListener's
\* loop body, nothing else touching the map)
ReplayStep ==
  /\ rpos < Len(log)
  /\ tenants' = ApplyEntry(tenants, Unmarshal(log[rpos + 1]).t)
  /\ rpos' = rpos + 1
  /\ UNCHANGED <<log, callerVars, listenerVars, fnVars, rpass, lockVars, script,
               rateVars>>

\* the loop is started again: a new reader at the earliest message, the map
\* as the previous run left it
ReplayAgain ==
  /\ rpos = Len(log)
  /\ rpass < MaxReplays
  /\ rpass' = rpass + 1
  /\ rpos' = 0
  /\ UNCHANGED <<tenantVars, fnVars, lockVars, script, rateVars>>

ReplayNext == ReplayStep \/ ReplayAgain

\* the topic replayed MaxReplays times in a row into an empty map
ReplaySpec == ConsumerInit /\ [][ReplayNext]_vars

(* ------------------------------- claims -------------------------------- *)
\* what a full replay of a topic must leave: per key the last document of
\* the key, and no entry when that document is a tombstone
LastIndex(l, k) ==
  CHOOSE n \in 1..Len(l) :
    /\ l[n].Name = k
    /\ \A m \in (n + 1)..Len(l) : l[m].Name # k
LastPerKey(l) ==
  [k \in {x \in {l[n].Name : n \in 1..Len(l)} :
            l[LastIndex(l, x)].TenantStatus # Deleted}
     |-> l[LastIndex(l, k)]]

\* a record, a map of records, without the UpdatedAt stamps (which the model
\* takes from a logical clock): what is compared where the stamp must not
\* decide
Unstamped(t) == [t EXCEPT !.UpdatedAt = 0]
UnstampedMap(m) == [k \in DOMAIN m |-> Unstamped(m[k])]

\* C1: read-your-write.  While no caller has stepped since an UpdateTenant
\* returned 200 with a record and no other call is in progress (so no other
\* writer writes the key in between), GetTenant of that key returns that
\* record (even leaving UpdatedAt aside), wherever the consumer loop stands.
C1_ReadYourWrite ==
  (ret.op = "update" /\ ret.code = StatusOK /\ \A c \in Callers : pc[c] = "idle")
    => /\ GetTenant(ret.key).err = ""
       /\ Unstamped(GetTenant(ret.key).plan) = Unstamped(ret.plan)

\* C2: the tenants map never holds a record whose TenantStatus is Deleted.
C2_NoDeletedInCache ==
  \A k \in DOMAIN tenants : tenants[k].TenantStatus # Deleted

\* C3: watchdog liveness, tenant class.  Whenever a dbListener has left its
\* loop (it is running its deferred calls), a new dbListener is eventually
\* launched; this holds at every point of every run, so after any number of
\* terminations.
C3_TenantWatchdogRelaunches ==
  \A i \in Slots :
    (lpc[i] \in {"close", "signal"}) ~> (\E j \in Slots : lpc[j] = "create")
\* a dbListener has terminated and the supervisor has taken its signal
C3_Witness == spc = "relaunch" /\ Live = {}

\* C4: watchdog liveness, function metadata class.  Whenever ReaderLoop has
\* left its loop (it is running its deferred calls), a new ReaderLoop is
\* eventually started.
C4_FnWatchdogRelaunches ==
  (rpc \in {"close", "signal"}) ~> (rpc = "start")

\* C5: at most one consumer loop per record class.  At most one dbListener
\* goroutine exists at any instant (a new one is launched only once the
\* previous one has closed its reader and its signal has been taken), and
\* ReaderLoop runs only as the one call made by the watchdog goroutine.
C5_AtMostOneLoop ==
  /\ Cardinality(Live) <= 1
  /\ rpc # "idle" => wpc = "incall"
\* a terminated dbListener, its reader closed, waits for its signal to be
\* taken and no other dbListener exists; ReaderLoop is reading
C5_Witness ==
  /\ \E i \in Slots : lpc[i] = "signal" /\ Live = {i}
  /\ spc = "recv"
  /\ rpc = "next"

\* C6: a failed append leaves the cache alone.  A call that ends at the send
\* of updateDb returns an error (500 from UpdateTenant), and neither that
\* step nor the step that led the call to the send changes the tenants map or
\* the topic.
C6_AppendFailureLeavesCache ==
  [][\A c \in Callers :
       /\ (pc[c] = "send" /\ pc'[c] = "idle") =>
            /\ ret'.caller = c /\ ret'.op = call[c].op /\ ret'.err # ""
            /\ ret'.plan = emptyPlan
            /\ call[c].op = "update" => ret'.code = StatusInternalServerError
            /\ tenants' = tenants /\ log' = log
       /\ (pc[c] = "idle" /\ pc'[c] = "send") =>
            tenants' = tenants /\ log' = log]_vars
\* UpdateTenant has returned 500 after a failed append and the key still has
\* its old record
C6_Witness ==
  /\ ret.op = "update" /\ ret.code = StatusInternalServerError
  /\ ret.key \in DOMAIN tenants
  /\ \E n \in 1..Len(log) : log[n] = tenants[ret.key]

\* C7: an unrecognized plan type is rejected before any mutation.  For a
\* request whose plan type getPlanPolicy does not know, UpdateTenant returns
\* 422 with the reconcile error, appends nothing, leaves the tenants map
\* unchanged and starts no write, whether the key is absent or present.
C7_UnknownPlanRejected ==
  [][\A c \in Callers, k \in Keys, r \in Requests :
       (getPlanPolicy(ToLower(r.PlanType)) = NilPolicy /\ UpdateTenant(c, k, r))
         => /\ ret' = [caller |-> c, op |-> "update", key |-> k,
                       code |-> StatusUnprocessableEntity, plan |-> emptyPlan,
                       err |-> "a valid plan type is missing"]
            /\ log' = log /\ tenants' = tenants /\ pc' = pc]_vars
\* UpdateTenant has returned 422 for a key that has a record
C7_Witness ==
  /\ ret.op = "update" /\ ret.code = StatusUnprocessableEntity
  /\ ret.key \in DOMAIN tenants

\* C8: a tombstone removes from the cache.  Right after the consumer loop
\* applies a document, a lookup of its key reports not found if the
\* document is delete-class (TenantStatus Deleted; service request type
\* DELETE) and returns the document's record otherwise.
C8_TombstoneRemoves ==
  [][/\ \A i \in Slots :
          (lpc[i] = "apply" /\ lpc'[i] = "next") =>
            LET t == log[loff[i]]
            IN IF t.TenantStatus = Deleted
               THEN t.Name \notin DOMAIN tenants'
               ELSE t.Name \in DOMAIN tenants' /\ tenants'[t.Name] = t
     /\ (rpc = "apply" /\ rpc' = "next") =>
          LET sr == fnLog[roff]
              got == ReadFunctionMap(functionMap', FunctionKey(sr))
          IN IF sr.ServiceRequestType = "DELETE"
             THEN ~got.ok
             ELSE /\ got.ok
                  /\ got.f.Tenant = sr.Tenant
                  /\ got.f.Namespace = sr.Namespace
                  /\ got.f.FunctionName = sr.Name
                  /\ got.f.FunctionWorkerID = sr.WorkerId]_vars
\* the dbListener has just applied a tombstone for a key that a document
\* before it had put in the map, and the key is gone
C8_Witness ==
  \E i \in Slots :
    /\ lpc[i] = "next" /\ loff[i] = 2
    /\ log[1].TenantStatus # Deleted /\ log[2].TenantStatus = Deleted
    /\ log[1].Name = log[2].Name
    /\ log[2].Name \notin DOMAIN tenants

\* C9: idempotent replay.  Whenever a run over the topic is complete, the
\* first or any later one in a row, the map holds per key the last document
\* of the key and nothing for a key whose last document is a tombstone: the
\* same contents after every run.
C9_IdempotentReplay ==
  rpos = Len(log) => tenants = LastPerKey(log)
\* the second run in a row over a topic that sets a key and then deletes it
\* is complete
C9_Witness ==
  /\ rpass >= 2 /\ rpos = Len(log) /\ Len(log) = 2
  /\ log[1].TenantStatus # Deleted /\ log[2].TenantStatus = Deleted
  /\ log[1].Name = log[2].Name

\* C10: convergence, last successful append wins.  Once every call has
\* returned and the consumer loop has applied every document of the topic,
\* the map holds per key the last document appended for the key, and no
\* entry for a key whose last document is a tombstone (even leaving
\* UpdatedAt aside).
C10_Convergence ==
  ( /\ \A c \in Callers : pc[c] = "idle"
    /\ \E i \in Slots : lpc[i] = "next" /\ loff[i] = Len(log) )
  => UnstampedMap(tenants) = UnstampedMap(LastPerKey(log))

\* the policy fields a request can set, numeric and string
NumericFields ==
  {"NumOfTopics", "NumOfNamespaces", "NumOfProducers", "NumOfConsumers",
   "Functions", "MessageHourRetention"}
StringFields == {"Name", "FeatureCodes"}

\* C11: create branch.  A request of a recognized plan type for a key with
\* no record is reconciled into a plan that is Activated unless the request
\* set a status, whose Audit is the initial marker if the request's was
\* empty, and whose every policy field the request left unset has the plan
\* class's default, also when the request set some policy fields.
C11_CreateDefaults ==
  [][\A c \in Callers :
       ( /\ Len(log) < Len(script)
         /\ ScriptKey \notin DOMAIN tenants
         /\ UpdateTenant(c, ScriptKey, NextRequest) )
         => LET r == NextRequest
                n == call'[c].plan
                d == getPlanPolicy(ToLower(r.PlanType))
            IN /\ n.TenantStatus = IF r.TenantStatus = Reserved0
                                   THEN Activated ELSE r.TenantStatus
               /\ n.Audit = IF r.Audit = "" THEN "initial creation," ELSE r.Audit
               /\ \A f \in NumericFields :
                    n.Policy[f] = IF r.Policy[f] = 0 THEN d[f] ELSE r.Policy[f]
               /\ \A f \in StringFields :
                    n.Policy[f] = IF r.Policy[f] = "" THEN d[f] ELSE r.Policy[f]]_vars

\* C12: update branch, non-zero wins.  A request of a recognized plan type
\* for a key that has a record is reconciled into a plan whose every numeric
\* quota is the requested one if non-zero and the existing one otherwise,
\* whose Policy.Name, FeatureCodes, Org and Users are the requested ones if
\* non-empty and the existing ones otherwise, and whose TenantStatus is the
\* requested one unless unset, then the existing one; that plan is what the
\* call stores.
C12_NonZeroWins ==
  [][\A c \in Callers :
       /\ ( /\ Len(log) < Len(script)
            /\ ScriptKey \in DOMAIN tenants
            /\ UpdateTenant(c, ScriptKey, NextRequest) )
            => LET r == NextRequest
                   e == tenants[ScriptKey]
                   n == call'[c].plan
               IN /\ \A f \in NumericFields :
                       n.Policy[f] = IF r.Policy[f] # 0 THEN r.Policy[f]
                                     ELSE e.Policy[f]
                  /\ \A f \in StringFields :
                       n.Policy[f] = IF r.Policy[f] # "" THEN r.Policy[f]
                                     ELSE e.Policy[f]
                  /\ n.Org = IF r.Org # "" THEN r.Org ELSE e.Org
                  /\ n.Users = IF r.Users # "" THEN r.Users ELSE e.Users
                  /\ n.TenantStatus = IF r.TenantStatus # Reserved0
                                      THEN r.TenantStatus ELSE e.TenantStatus
       /\ (pc[c] = "set" /\ pc'[c] = "idle")
            => Unstamped(tenants'[ScriptKey]) = Unstamped(call[c].plan)]_vars
\* an update that set one quota and left the rest unset has been stored over
\* a record that had every field set, and an update that set a status has
\* been stored too
C12_Witness ==
  /\ \A c \in Callers : pc[c] = "idle"
  /\ Len(log) = 2
  /\ script[1].Policy = CustomPolicy /\ script[1].Org = "org1"
  /\ script[2].Policy = TopicsOnlyPolicy /\ script[2].Org = ""
  /\ script[1].TenantStatus = Deactivated /\ script[2].TenantStatus = Reserved0
  /\ tenants[ScriptKey].Policy.NumOfTopics = 10
  /\ tenants[ScriptKey].Policy.NumOfNamespaces = 3
  /\ tenants[ScriptKey].TenantStatus = Deactivated

\* the audit string N sequential calls must leave: their entries in call
\* order, comma-separated (the initial marker for an empty first entry)
RECURSIVE JoinedAudit(_)
JoinedAudit(s) ==
  IF Len(s) = 1
  THEN IF s[1].Audit = "" THEN "initial creation," ELSE s[1].Audit
  ELSE JoinedAudit(SubSeq(s, 1, Len(s) - 1)) \o "," \o s[Len(s)].Audit

\* C13: audit accumulation.  After N sequential successful UpdateTenant
\* calls on one key the record's Audit holds the N contributed entries in
\* call order, comma-separated, none overwritten or dropped.
C13_AuditAccumulates ==
  (Len(log) >= 1 /\ \A c \in Callers : pc[c] = "idle")
    => tenants[ScriptKey].Audit = JoinedAudit(SubSeq(script, 1, Len(log)))
\* two calls that each contributed a non-empty entry have returned
C13_Witness ==
  /\ \A c \in Callers : pc[c] = "idle"
  /\ Len(log) = 2
  /\ script[1].Audit = "bump" /\ script[2].Audit = "bump"
  /\ tenants[ScriptKey].Audit = "bump,bump"

\* C14: the end-to-end example.  From an empty store, a create request for
\* "acme" with status unset and quota 10, then an update request with status
\* unset, quota 0 and audit "bump", leave the entry of "acme" Activated,
\* with quota 10 and audit "initial creation,,bump".
C14_Example ==
  ( /\ Len(script) = 2 /\ Len(log) = 2
    /\ \A c \in Callers : pc[c] = "idle"
    /\ script[1].TenantStatus = Reserved0 /\ script[1].Audit = ""
    /\ script[1].Policy = TopicsOnlyPolicy
    /\ script[2].TenantStatus = Reserved0 /\ script[2].Audit = "bump"
    /\ script[2].Policy = emptyPolicy )
  => /\ ScriptKey \in DOMAIN tenants
     /\ tenants[ScriptKey].Name = "acme"
     /\ tenants[ScriptKey].TenantStatus = Activated
     /\ tenants[ScriptKey].Policy.NumOfTopics = 10
     /\ tenants[ScriptKey].Audit = "initial creation,,bump"
\* both calls of the example have returned
C14_Witness ==
  /\ Len(script) = 2 /\ Len(log) = 2
  /\ \A c \in Callers : pc[c] = "idle"
  /\ ret.op = "update" /\ ret.code = StatusOK
  /\ script[1].TenantStatus = Reserved0 /\ script[1].Audit = ""
  /\ script[1].Policy = TopicsOnlyPolicy
  /\ script[2].TenantStatus = Reserved0 /\ script[2].Audit = "bump"
  /\ script[2].Policy = emptyPolicy
  /\ tenants[ScriptKey] = log[2]

\* C15: a decode or read error ends the loop.  A payload that does not
\* unmarshal is never applied (the step that handles it sets and deletes
\* no key) and ends the dbListener, which runs its deferred calls and
\* applies nothing more; a read error ends it the same way.
C15_DecodeErrorFatal ==
  [][\A i \in Slots :
       /\ (lpc[i] = "apply" /\ lpc'[i] # "apply"
             /\ Unmarshal(log[loff[i]]).err # "")
            => tenants' = tenants /\ lpc'[i] \in {"close", "signal"}
       /\ (lpc[i] = "next" /\ lpc'[i] \notin {"next", "apply"})
            => tenants' = tenants /\ lpc'[i] \in {"close", "signal"}]_vars

\* C16: lock discipline.  No step writes a materialized map, or replaces
\* it, while a reader holds the map's lock shared: what taking the lock
\* exclusively for every write guarantees.
C16_LockDiscipline ==
  [][/\ tenants' # tenants => tenantsLock = 0
     /\ (functionMap' # functionMap \/ (rpc = "start" /\ rpc' # "start"))
          => fnMpLock = 0]_vars

\* C17: eager update before replay.  The dbListener never applies the
\* document of a write whose writer has not yet set it in the map (the
\* document a writer sent is the one at the index of its UpdatedAt stamp).
C17_EagerBeforeReplay ==
  [][\A i \in Slots :
       (lpc[i] = "apply" /\ lpc'[i] = "next")
         => \A c \in Callers :
              ~(pc[c] = "set" /\ call[c].plan.UpdatedAt = loff[i])]_vars

\* C18: one liveness signal per loop instance.  A consumer loop reaches its
\* send only when it terminates and on every way out (creation failure,
\* read error, through its deferred calls), an instance ends only by its
\* one signal being received, no signal is received from a loop that is
\* still running, and the supervisor starts exactly one new loop per
\* signal received.
C18_OneSignalPerLoop ==
  [][/\ \A i \in Slots :
          /\ (lpc[i] \in {"create", "next", "apply"} /\ lpc'[i] # lpc[i])
               => lpc'[i] \in {"next", "apply", "close", "signal"}
          /\ (lpc[i] = "close" /\ lpc'[i] # lpc[i]) => lpc'[i] = "signal"
          /\ (lpc[i] # "signal" /\ lpc'[i] = "signal")
               => lpc[i] \in {"create", "close"}
          /\ (lpc[i] = "signal" /\ lpc'[i] # lpc[i])
               => lpc'[i] = "none" /\ spc = "recv" /\ spc' = "relaunch"
     /\ (spc # "relaunch" /\ spc' = "relaunch")
          => Cardinality({i \in Slots : lpc[i] = "signal" /\ lpc'[i] = "none"}) = 1
     /\ (spc = "relaunch" /\ spc' # spc)
          => /\ spc' = "recv"
             /\ Cardinality({i \in Slots : lpc[i] = "none" /\ lpc'[i] = "create"}) = 1
             /\ \A i \in Slots : lpc[i] # "none" => lpc'[i] = lpc[i]
     /\ (rpc \in {"client", "reader", "next", "apply"} /\ rpc' # rpc)
          => rpc' \in {"reader", "next", "apply", "close", "signal"}
     /\ (rpc = "close" /\ rpc' # rpc) => rpc' = "signal"
     /\ (rpc # "signal" /\ rpc' = "signal") => rpc \in {"client", "close"}
     /\ rpc = "signal" => rpc' = "signal" /\ wpc' = wpc]_vars
\* a dbListener that ended and a ReaderLoop that ended are both at their
\* send, the supervisor of the first waiting to receive
C18_Witness ==
  /\ \E i \in Slots : lpc[i] = "signal" /\ loff[i] = 0 /\ Live = {i}
  /\ spc = "recv"
  /\ rpc = "signal"
  /\ Len(log) > 0

\* C19: Unset is never stored by a merge.  Every document of the topic,
\* every record of the map and every plan a call is about to send or set
\* has a TenantStatus other than the zero value.
C19_StatusNeverUnset ==
  /\ \A n \in 1..Len(log) : log[n].TenantStatus # Reserved0
  /\ \A k \in DOMAIN tenants : tenants[k].TenantStatus # Reserved0
  /\ \A c \in Callers : pc[c] # "idle" => call[c].plan.TenantStatus # Reserved0
\* an update whose request left the status unset has been merged into an
\* existing record and stored
C19_Witness ==
  /\ ret.op = "update" /\ ret.code = StatusOK
  /\ Len(log) = 2 /\ log[1].Name = log[2].Name
  /\ log[1].TenantStatus = Activated
  /\ log[2].Audit = "initial creation,,bump"
  /\ tenants[ret.key] = log[2]
  /\ tenants[ret.key].TenantStatus = Activated

\* C20: not found.  DeleteTenant of a key the map does not hold returns the
\* not-found error at once, appends nothing, leaves the map unchanged and
\* starts no write; GetTenant of such a key returns not found (and, reading
\* only, changes nothing).
C20_NotFound ==
  [][\A c \in Callers, k \in Keys :
       (k \notin DOMAIN tenants /\ DeleteTenant(c, k))
         => /\ ret' = [caller |-> c, op |-> "delete", key |-> k, code |-> 0,
                       plan |-> emptyPlan, err |-> "not found"]
            /\ log' = log /\ tenants' = tenants /\ pc' = pc
            /\ GetTenant(k) = [plan |-> emptyPlan, err |-> "not found"]]_vars
\* DeleteTenant has returned not found for one key while the other key has
\* its record
C20_Witness ==
  /\ ret.op = "delete" /\ ret.err = "not found"
  /\ ret.key \notin DOMAIN tenants
  /\ DOMAIN tenants # {}
  /\ Len(log) > 0

\* C21: no resurrection after delete.  While no caller has stepped since a
\* DeleteTenant returned success and no other call is in progress (so no
\* UpdateTenant of the key has been issued since), GetTenant of the key
\* reports not found, wherever the consumer loop stands in its replay.
C21_NoResurrection ==
  (ret.op = "delete" /\ ret.err = "" /\ \A c \in Callers : pc[c] = "idle")
    => GetTenant(ret.key) = [plan |-> emptyPlan, err |-> "not found"]

\* C22: key stability.  Every entry of the tenants map is stored under its
\* record's Name, and the set of an UpdateTenant or DeleteTenant call for a
\* key changes the entry of that key only: the Name of a request body never
\* decides where the record goes.
C22_KeyStability ==
  [][/\ \A k \in DOMAIN tenants' : tenants'[k].Name = k
     /\ \A c \in Callers :
          (pc[c] = "set" /\ pc'[c] # "set")
            => \A x \in ((DOMAIN tenants) \cup (DOMAIN tenants')) \ {call[c].key} :
                 /\ x \in DOMAIN tenants /\ x \in DOMAIN tenants'
                 /\ tenants'[x] = tenants[x]]_vars
\* UpdateTenant("acme") has stored the request whose body names "beta", and
\* "beta" has no entry
C22_Witness ==
  /\ ret.op = "update" /\ ret.code = StatusOK /\ ret.key = "acme"
  /\ ret.plan.Audit = "bump"
  /\ DOMAIN tenants = {"acme"}
  /\ tenants["acme"].Name = "acme"

\* the (tenant, namespace, function name) triple of a service request, of a
\* stored FunctionType
TripleOfRequest(sr) == <<sr.Tenant, sr.Namespace, sr.Name>>
TripleOfFunction(f) == <<f.Tenant, f.Namespace, f.FunctionName>>

\* C23: function key uniqueness.  Applying a service request for one
\* function (upsert or DELETE) leaves the entry of every other function,
\* one with another (tenant, namespace, name) triple, in the map as it was.
C23_FunctionKeyUnique ==
  [][(rpc = "apply" /\ rpc' = "next")
       => \A k \in DOMAIN functionMap :
            TripleOfFunction(functionMap[k]) # TripleOfRequest(fnLog[roff])
              => /\ k \in DOMAIN functionMap'
                 /\ functionMap'[k] = functionMap[k]]_vars

\* C24: permit balance.  A request rejected with 429 gives no permit back,
\* a served request gives back the one it took, and the requests inside the
\* wrapped handler are never more than the semaphore has permits.
C24_PermitBalance ==
  [][/\ \A q \in HTTPRequests :
          /\ (qpc[q] = "rejected" /\ qpc'[q] # "rejected") => Rate' = Rate
          /\ (qpc[q] = "served" /\ qpc'[q] # "served") => Rate' = Rate - 1
     /\ Cardinality({q \in HTTPRequests : qpc'[q] = "serve"}) <= RateSize]_vars

====
